---- MODULE Spec2Model ----
(***************************************************************************)
(* Model of the xincache engine (src/Cache.py): an insertion-ordered       *)
(* in-memory map of entries with lazy expiry, a size-triggered eviction    *)
(* step and pickle files on disk.                                          *)
(*                                                                         *)
(* Python values are modelled by name: "i0" is the int 0, "i1" the int 1,  *)
(* "sEmpty" the str '', "lEmpty" the list [], "bFalse" the bool False and  *)
(* "None" the None object.  An int that may be None is an integer with     *)
(* NoneInt standing for None.  A call that raises leaves the name of the   *)
(* exception in ret.exc and keeps whatever it had changed before raising.  *)
(*                                                                         *)
(* The class body binds the name setDiskCache twice (lines 22 and 54); the *)
(* later binding, the per-key writer, is the one every call reaches, so no *)
(* method of the class assigns __cache_dir.  Spec starts from the class    *)
(* attributes as written (no directory).  SpecDisk starts from an engine   *)
(* whose __cache_dir holds a directory, the state the directory-taking     *)
(* definition at lines 22-32 describes, and is the specification for the   *)
(* statements about a configured backing store.                            *)
(***************************************************************************)
EXTENDS Integers, Sequences, FiniteSets, TLC

VARIABLES max_size, cache_dir, default_ttl, cache_data, disk, now, ret

vars == <<max_size, cache_dir, default_ttl, cache_data, disk, now, ret>>

----------------------------------------------------------------------------
(* Bounds and input domains *)

MaxNow == 3
MaxTTL == 2

Keys == {"k1", "k2"}
Keys3 == {"k1", "k2", "k3"}
None == "None"
Values == {"i0", "i1", "sEmpty", "lEmpty", "bFalse"}
Defaults == {"None", "dflt"}
NoneInt == -1
Omitted == -2
NoDir == "NoDir"
CacheDir == "/tmp/xc"

TagNone == [kind |-> "none", v |-> <<>>]
TagStrX == [kind |-> "str", v |-> <<"x">>]
TagListX == [kind |-> "list", v |-> <<"x">>]
TagListY == [kind |-> "list", v |-> <<"y">>]
TagListXY == [kind |-> "list", v |-> <<"x", "y">>]

\* The argument combinations the model passes to set.
SetCalls ==
    {[value |-> v, ttl |-> Omitted, tags |-> TagNone] : v \in Values \cup {None}}
    \cup {[value |-> "i1", ttl |-> t, tags |-> TagNone] : t \in {NoneInt, 0} \cup (1..MaxTTL)}
    \cup {[value |-> "i1", ttl |-> Omitted, tags |-> g] : g \in {TagStrX, TagListX, TagListY}}
    \cup {[value |-> "i1", ttl |-> MaxTTL, tags |-> TagListX]}

\* The set calls of the tag runs: two values, with and without an expiry.
TagCalls ==
    {[value |-> v, ttl |-> t, tags |-> g] :
        v \in {"i0", "i1"}, t \in {Omitted, 1},
        g \in {TagNone, TagStrX, TagListX, TagListY, TagListXY}}

\* The queries the model passes to get_tags.
TagQueries == {TagNone, TagStrX, TagListX, TagListY}

\* The set calls of the eviction runs: values of different sizes; "bBig"
\* is a bytes object of 2 MiB.
EvictCalls == {[value |-> v, ttl |-> Omitted, tags |-> TagNone] : v \in {"i1", "sEmpty", "bBig"}}

\* The calls of the remember runs: a truthy and a falsy value.
RememberCalls ==
    {[value |-> v, ttl |-> t, tags |-> TagNone] : v \in {"i1", "sEmpty"}, t \in {Omitted, 1}}

----------------------------------------------------------------------------
(* Python built-ins used by the engine *)

\* sys.getsizeof on CPython 3.11, 64-bit
SizeOfNone == 16
SizeOfDict == 184
SizeOfStrBase == 49

SizeOfValue(v) ==
    CASE v = "None" -> SizeOfNone
      [] v \in {"i0", "i1", "bFalse"} -> 28
      [] v = "sEmpty" -> SizeOfStrBase
      [] v = "lEmpty" -> 56
      [] v = "bBig" -> 33 + 2 * 1024 * 1024

SizeOfDir(d) == IF d = NoDir THEN SizeOfNone ELSE SizeOfStrBase + 7

\* value != 0
NeZero(v) == v \notin {"i0", "bFalse"}

\* bool(value)
Truthy(v) == v \notin {"None", "i0", "sEmpty", "lEmpty", "bFalse"}

----------------------------------------------------------------------------
(* The ordered map __cache_data: a sequence of key/value pairs without     *)
(* repeated keys.  A value is an entry dict or the None object.            *)

NoneObj == [data |-> "None", tags |-> <<>>, ttl |-> NoneInt]

KeysOf(cd) == [i \in 1..Len(cd) |-> cd[i].key]

InMap(cd, k) == \E i \in 1..Len(cd) : cd[i].key = k

Lookup(cd, k) == cd[CHOOSE i \in 1..Len(cd) : cd[i].key = k].val

\* an assignment that moves an existing key to the end
Put_MoveToEnd(cd, k, e) ==
    Append(SelectSeq(cd, LAMBDA p : p.key # k), [key |-> k, val |-> e])

\* cd[k] = e: an existing key keeps its position, a new key goes last
Put(cd, k, e) ==
    IF InMap(cd, k)
    THEN [i \in 1..Len(cd) |-> IF cd[i].key = k THEN [key |-> k, val |-> e] ELSE cd[i]]
    ELSE Append(cd, [key |-> k, val |-> e])

\* del cd[k]
Del(cd, k) == SelectSeq(cd, LAMBDA p : p.key # k)

SizeOfEntry(e) == IF e = NoneObj THEN SizeOfNone ELSE SizeOfDict

----------------------------------------------------------------------------
(* The pickle files: disk maps the keys that have a file to its content.   *)

\* pickle.dumps and pickle.loads of an entry dict (or of None)
Dumps(e) == <<"pickle", e.data, e.tags, e.ttl>>

Loads(b) == [data |-> b[2], tags |-> b[3], ttl |-> b[4]]

hasDiskCache(dk, dir, k) == dir # NoDir /\ k \in DOMAIN dk

getDiskCache(dk, dir, k) == IF hasDiskCache(dk, dir, k) THEN Loads(dk[k]) ELSE NoneObj

deleteDiskCache(dk, dir, k) ==
    IF dir # NoDir /\ k \in DOMAIN dk
    THEN [x \in (DOMAIN dk) \ {k} |-> dk[x]]
    ELSE dk

\* a writer that leaves an existing file as it is
WriteDisk_CreateOnly(dk, dir, cd, k) ==
    IF dir = NoDir THEN [disk |-> dk, exc |-> ""]
    ELSE IF ~InMap(cd, k) THEN [disk |-> dk, exc |-> "KeyError"]
    ELSE [disk |-> [x \in (DOMAIN dk) \cup {k} |->
                       IF x \in DOMAIN dk THEN dk[x] ELSE Dumps(Lookup(cd, k))],
          exc |-> ""]

\* the per-key writer (the setDiskCache of line 54): pickles cache_data[key];
\* KeyError when key is not in the map
WriteDisk(dk, dir, cd, k) ==
    IF dir = NoDir THEN [disk |-> dk, exc |-> ""]
    ELSE IF ~InMap(cd, k) THEN [disk |-> dk, exc |-> "KeyError"]
    ELSE [disk |-> [x \in (DOMAIN dk) \cup {k} |->
                       IF x = k THEN Dumps(Lookup(cd, k)) ELSE dk[x]],
          exc |-> ""]

----------------------------------------------------------------------------
(* set *)

MB == 1024 * 1024

\* the size test of line 134; max_size is a whole number, so comparing the
\* floor of the quotient is the comparison of the quotient
OverLimit(ms, dir) == ms # NoneInt /\ (SizeOfDir(dir) \div MB) >= ms

\* an eviction that takes the newest entry
EvictLoop_Newest(cd, clear_size, over_size, evicted, mutated) ==
    IF cd = <<>> THEN [cd |-> cd, evicted |-> evicted, exc |-> ""]
    ELSE [cd |-> SubSeq(cd, 1, Len(cd) - 1),
          evicted |-> Append(evicted, cd[Len(cd)].key), exc |-> ""]

RECURSIVE EvictLoop(_, _, _, _, _)
\* the for loop of lines 137-141; after a deletion the iterator of an
\* OrderedDict raises RuntimeError if it still has a key to visit
EvictLoop(cd, clear_size, over_size, evicted, mutated) ==
    IF cd = <<>> THEN [cd |-> cd, evicted |-> evicted, exc |-> ""]
    ELSE IF mutated THEN [cd |-> cd, evicted |-> evicted, exc |-> "RuntimeError"]
    ELSE LET c == clear_size + SizeOfEntry(Head(cd).val) IN
         IF c >= over_size
         THEN [cd |-> Tail(cd), evicted |-> Append(evicted, Head(cd).key), exc |-> ""]
         ELSE EvictLoop(Tail(cd), c, over_size, Append(evicted, Head(cd).key), TRUE)

Evict(cd, dir, ms, value) ==
    IF OverLimit(ms, dir)
    THEN EvictLoop(cd, 0, SizeOfDir(dir) - ms - SizeOfValue(value), <<>>, FALSE)
    ELSE [cd |-> cd, evicted |-> <<>>, exc |-> ""]

\* the parameter default ttl = 0 of line 116
BindTTL(a) == IF a = Omitted THEN 0 ELSE a

\* an expiry kept as the duration instead of the absolute time
ExpiresAt_Relative(ttl, dttl, t) ==
    IF ttl = NoneInt
    THEN (IF dttl # NoneInt /\ dttl > 0 THEN dttl ELSE NoneInt)
    ELSE (IF ttl > 0 THEN ttl ELSE NoneInt)

\* lines 143-146
ExpiresAt(ttl, dttl, t) ==
    IF ttl = NoneInt
    THEN (IF dttl # NoneInt /\ dttl > 0 THEN t + dttl ELSE NoneInt)
    ELSE (IF ttl > 0 THEN t + ttl ELSE NoneInt)

\* line 150
NormTags(g) == IF g.kind = "str" THEN <<g.v[1]>> ELSE IF g.kind = "none" THEN <<>> ELSE g.v

NewEntry(value, ttl, tags, dttl, t) ==
    [data |-> value, tags |-> NormTags(tags), ttl |-> ExpiresAt(ttl, dttl, t)]

NoRet == [op |-> "init", key |-> "", arg |-> "", ttl |-> 0, tags |-> TagNone,
          val |-> "", num |-> 0, exc |-> "", evicted |-> <<>>, list |-> <<>>]

set(key, c) ==
    LET ttl == BindTTL(c.ttl)
        r == [NoRet EXCEPT !.op = "set", !.key = key, !.arg = c.value,
                           !.ttl = c.ttl, !.tags = c.tags]
    IN
    IF c.value = None
    THEN /\ ret' = [r EXCEPT !.val = None]
         /\ UNCHANGED <<max_size, cache_dir, default_ttl, cache_data, disk, now>>
    ELSE LET ev == Evict(cache_data, cache_dir, max_size, c.value) IN
         IF ev.exc # ""
         THEN /\ cache_data' = ev.cd
              /\ ret' = [r EXCEPT !.exc = ev.exc, !.evicted = ev.evicted]
              /\ UNCHANGED <<max_size, cache_dir, default_ttl, disk, now>>
         ELSE LET cd == Put(ev.cd, key, NewEntry(c.value, ttl, c.tags, default_ttl, now))
                  w == WriteDisk(disk, cache_dir, cd, key)
              IN /\ cache_data' = cd
                 /\ disk' = w.disk
                 /\ ret' = [r EXCEPT !.val = Lookup(cd, key).data, !.evicted = ev.evicted]
                 /\ UNCHANGED <<max_size, cache_dir, default_ttl, now>>

----------------------------------------------------------------------------
(* get and the operations built on it *)

\* ttl is not None and ttl < int(time.time())
Expired(e, t) == e.ttl # NoneInt /\ e.ttl < t

\* lines 184-192: the value returned or the exception raised, and the map
\* and the files the call leaves behind
GetOp(cd, dk, dir, key, default, t) ==
    LET cd1 == IF ~InMap(cd, key) THEN Put(cd, key, getDiskCache(dk, dir, key)) ELSE cd
        e == Lookup(cd1, key)
    IN
    IF e = NoneObj
    THEN [val |-> "", exc |-> "TypeError", cd |-> cd1, disk |-> dk]
    ELSE IF Expired(e, t)
    THEN [val |-> default, exc |-> "", cd |-> Del(cd1, key),
          disk |-> deleteDiskCache(dk, dir, key)]
    ELSE [val |-> e.data, exc |-> "", cd |-> cd1, disk |-> dk]

get(key, default) ==
    LET g == GetOp(cache_data, disk, cache_dir, key, default, now) IN
    /\ cache_data' = g.cd
    /\ disk' = g.disk
    /\ ret' = [NoRet EXCEPT !.op = "get", !.key = key, !.arg = default,
                            !.val = g.val, !.exc = g.exc]
    /\ UNCHANGED <<max_size, cache_dir, default_ttl, now>>

\* presence as plain truthiness
HasResult_Truthy(value) == Truthy(value)

\* line 217
HasResult(value) == IF NeZero(value) THEN Truthy(value) ELSE TRUE

BoolStr(b) == IF b THEN "True" ELSE "False"

has(key) ==
    LET g == GetOp(cache_data, disk, cache_dir, key, None, now) IN
    /\ cache_data' = g.cd
    /\ disk' = g.disk
    /\ ret' = [NoRet EXCEPT !.op = "has", !.key = key, !.exc = g.exc,
                            !.val = IF g.exc = "" THEN BoolStr(HasResult(g.val)) ELSE ""]
    /\ UNCHANGED <<max_size, cache_dir, default_ttl, now>>

delete(key) ==
    /\ IF InMap(cache_data, key)
       THEN /\ cache_data' = Del(cache_data, key)
            /\ disk' = deleteDiskCache(disk, cache_dir, key)
       ELSE UNCHANGED <<cache_data, disk>>
    /\ ret' = [NoRet EXCEPT !.op = "delete", !.key = key, !.val = "True"]
    /\ UNCHANGED <<max_size, cache_dir, default_ttl, now>>

set_ttl(key, ttl) ==
    LET g == GetOp(cache_data, disk, cache_dir, key, None, now)
        r == [NoRet EXCEPT !.op = "set_ttl", !.key = key, !.ttl = ttl]
    IN
    IF g.exc # ""
    THEN /\ cache_data' = g.cd
         /\ disk' = g.disk
         /\ ret' = [r EXCEPT !.exc = g.exc]
         /\ UNCHANGED <<max_size, cache_dir, default_ttl, now>>
    ELSE LET cd == IF InMap(g.cd, key)
                   THEN Put(g.cd, key, [Lookup(g.cd, key) EXCEPT
                                           !.ttl = IF ttl > 0 THEN now + ttl ELSE NoneInt])
                   ELSE g.cd
             w == WriteDisk(g.disk, cache_dir, cd, key)
         IN /\ cache_data' = cd
            /\ disk' = w.disk
            /\ ret' = [r EXCEPT !.exc = w.exc, !.val = IF w.exc = "" THEN "self" ELSE ""]
            /\ UNCHANGED <<max_size, cache_dir, default_ttl, now>>

get_ttl(key) ==
    LET g == GetOp(cache_data, disk, cache_dir, key, None, now)
        r == [NoRet EXCEPT !.op = "get_ttl", !.key = key, !.exc = g.exc]
    IN
    /\ cache_data' = g.cd
    /\ disk' = g.disk
    /\ ret' = IF g.exc # "" THEN r
              ELSE IF InMap(g.cd, key)
              THEN LET e == Lookup(g.cd, key) IN
                   [r EXCEPT !.val = "int",
                             !.num = IF e.ttl # NoneInt /\ e.ttl > 0 THEN e.ttl - now ELSE -1]
              ELSE [r EXCEPT !.val = None]
    /\ UNCHANGED <<max_size, cache_dir, default_ttl, now>>

----------------------------------------------------------------------------
(* clear and delete_expired *)

\* line 258 hands the map, not the directory, to os.listdir
clear ==
    /\ cache_data' = <<>>
    /\ ret' = [NoRet EXCEPT !.op = "clear",
                            !.exc = IF cache_dir # NoDir THEN "TypeError" ELSE "",
                            !.val = IF cache_dir # NoDir THEN "" ELSE None]
    /\ UNCHANGED <<max_size, cache_dir, default_ttl, disk, now>>

RECURSIVE SweepLoop(_, _, _, _, _)
\* lines 272-275 over the keys listed before the loop starts
SweepLoop(ks, cd, dk, dir, t) ==
    IF ks = <<>> THEN [cd |-> cd, disk |-> dk, exc |-> ""]
    ELSE LET e == Lookup(cd, Head(ks)) IN
         IF e = NoneObj THEN [cd |-> cd, disk |-> dk, exc |-> "TypeError"]
         ELSE IF Expired(e, t)
         THEN SweepLoop(Tail(ks), Del(cd, Head(ks)), deleteDiskCache(dk, dir, Head(ks)), dir, t)
         ELSE SweepLoop(Tail(ks), cd, dk, dir, t)

delete_expired ==
    LET s == SweepLoop(KeysOf(cache_data), cache_data, disk, cache_dir, now) IN
    /\ cache_data' = s.cd
    /\ disk' = s.disk
    /\ ret' = [NoRet EXCEPT !.op = "delete_expired", !.exc = s.exc,
                            !.val = IF s.exc = "" THEN "self" ELSE ""]
    /\ UNCHANGED <<max_size, cache_dir, default_ttl, now>>

----------------------------------------------------------------------------
(* remember: the class has no such method; it is the composition of has,   *)
(* set and get that section 4.1 of the specification describes             *)

\* lines 129-157 as a function of the state: what set returns or raises
\* and the map and the files it leaves behind
SetOp(cd, dk, dir, ms, dttl, key, c, t) ==
    IF c.value = None
    THEN [val |-> None, exc |-> "", cd |-> cd, disk |-> dk]
    ELSE LET ev == Evict(cd, dir, ms, c.value) IN
         IF ev.exc # ""
         THEN [val |-> "", exc |-> ev.exc, cd |-> ev.cd, disk |-> dk]
         ELSE LET cd1 == Put(ev.cd, key, NewEntry(c.value, BindTTL(c.ttl), c.tags, dttl, t))
              IN [val |-> Lookup(cd1, key).data, exc |-> "", cd |-> cd1,
                  disk |-> WriteDisk(dk, dir, cd1, key).disk]

\* if has(key) is false, set the value; return get(key) afterwards
remember(key, c) ==
    LET h == GetOp(cache_data, disk, cache_dir, key, None, now)
        r == [NoRet EXCEPT !.op = "remember", !.key = key, !.arg = c.value,
                           !.ttl = c.ttl, !.tags = c.tags]
    IN
    IF h.exc # ""
    THEN /\ cache_data' = h.cd
         /\ disk' = h.disk
         /\ ret' = [r EXCEPT !.exc = h.exc]
         /\ UNCHANGED <<max_size, cache_dir, default_ttl, now>>
    ELSE LET s == IF HasResult(h.val)
                  THEN [val |-> "", exc |-> "", cd |-> h.cd, disk |-> h.disk]
                  ELSE SetOp(h.cd, h.disk, cache_dir, max_size, default_ttl, key, c, now)
             g == GetOp(s.cd, s.disk, cache_dir, key, None, now)
         IN IF s.exc # ""
            THEN /\ cache_data' = s.cd
                 /\ disk' = s.disk
                 /\ ret' = [r EXCEPT !.exc = s.exc]
                 /\ UNCHANGED <<max_size, cache_dir, default_ttl, now>>
            ELSE /\ cache_data' = g.cd
                 /\ disk' = g.disk
                 /\ ret' = [r EXCEPT !.exc = g.exc, !.val = g.val]
                 /\ UNCHANGED <<max_size, cache_dir, default_ttl, now>>

----------------------------------------------------------------------------
(* get_tags *)

Range(sq) == {sq[i] : i \in 1..Len(sq)}

RECURSIVE TagsLoop(_, _, _)
\* lines 289-291: the test of line 290 subscripts the map's value only when
\* tags is None or a list
TagsLoop(cd, q, acc) ==
    IF cd = <<>> THEN [list |-> acc, exc |-> ""]
    ELSE LET e == Head(cd).val IN
         IF q.kind = "none"
         THEN (IF e = NoneObj THEN [list |-> <<>>, exc |-> "TypeError"]
               ELSE TagsLoop(Tail(cd), q, Append(acc, e.data)))
         ELSE IF q.kind = "list"
         THEN (IF e = NoneObj THEN [list |-> <<>>, exc |-> "TypeError"]
               ELSE IF Range(q.v) \cap Range(e.tags) # {}
               THEN TagsLoop(Tail(cd), q, Append(acc, e.data))
               ELSE TagsLoop(Tail(cd), q, acc))
         ELSE TagsLoop(Tail(cd), q, acc)

get_tags(q) ==
    LET r == TagsLoop(cache_data, q, <<>>) IN
    /\ ret' = [NoRet EXCEPT !.op = "get_tags", !.tags = q, !.exc = r.exc,
                            !.val = IF r.exc = "" THEN "list" ELSE "", !.list = r.list]
    /\ UNCHANGED <<max_size, cache_dir, default_ttl, cache_data, disk, now>>

----------------------------------------------------------------------------
(* configuration, the clock and the process *)

setMaxSize(m) ==
    /\ max_size' = IF m # NoneInt THEN m * 1024 * 1024 ELSE NoneInt
    /\ ret' = [NoRet EXCEPT !.op = "setMaxSize", !.val = "self"]
    /\ UNCHANGED <<cache_dir, default_ttl, cache_data, disk, now>>

setDefaultTTL(t) ==
    /\ default_ttl' = t
    /\ ret' = [NoRet EXCEPT !.op = "setDefaultTTL", !.val = "self"]
    /\ UNCHANGED <<max_size, cache_dir, cache_data, disk, now>>

\* int(time.time()) moves on
Tick ==
    /\ now < MaxNow
    /\ now' = now + 1
    /\ ret' = [NoRet EXCEPT !.op = "tick"]
    /\ UNCHANGED <<max_size, cache_dir, default_ttl, cache_data, disk>>

\* a new process over the same directory: the class attributes start
\* again, the files stay
Restart ==
    /\ cache_data' = <<>>
    /\ max_size' = NoneInt
    /\ default_ttl' = NoneInt
    /\ ret' = [NoRet EXCEPT !.op = "restart"]
    /\ UNCHANGED <<cache_dir, disk, now>>

----------------------------------------------------------------------------

Init ==
    /\ max_size = NoneInt
    /\ cache_dir = NoDir
    /\ default_ttl = NoneInt
    /\ cache_data = <<>>
    /\ disk = [x \in {} |-> Dumps(NoneObj)]
    /\ now = 1
    /\ ret = NoRet

InitDisk ==
    /\ max_size = NoneInt
    /\ cache_dir = CacheDir
    /\ default_ttl = NoneInt
    /\ cache_data = <<>>
    /\ disk = [x \in {} |-> Dumps(NoneObj)]
    /\ now = 1
    /\ ret = NoRet

Next ==
    \/ \E m \in {NoneInt, 0, 1} : setMaxSize(m)
    \/ \E t \in {NoneInt, MaxTTL} : setDefaultTTL(t)
    \/ \E k \in Keys, c \in SetCalls : set(k, c)
    \/ \E k \in Keys, d \in Defaults : get(k, d)
    \/ \E k \in Keys : delete(k)
    \/ \E k \in Keys : has(k)
    \/ \E k \in Keys : get_ttl(k)
    \/ clear
    \/ delete_expired
    \/ Tick
    \/ Restart

\* the calls that change an expiry, over the set calls that store "i1"
NextTTL ==
    \/ \E k \in Keys, c \in {x \in SetCalls : x.value = "i1"} : set(k, c)
    \/ \E k \in Keys, t \in 0..MaxTTL : set_ttl(k, t)
    \/ \E k \in Keys : get_ttl(k)
    \/ \E k \in Keys, d \in Defaults : get(k, d)
    \/ \E k \in Keys : delete(k)
    \/ delete_expired
    \/ Tick
    \/ Restart

\* the eviction runs: three keys, a cap that can be set and lifted
NextEvict ==
    \/ \E m \in {NoneInt, 0, 1} : setMaxSize(m)
    \/ \E k \in Keys3, c \in EvictCalls : set(k, c)
    \/ \E k \in Keys3 : get(k, "dflt")
    \/ \E k \in Keys3 : delete(k)

\* the tag runs
NextTags ==
    \/ \E k \in Keys, c \in TagCalls : set(k, c)
    \/ \E q \in TagQueries : get_tags(q)
    \/ \E k \in Keys : get(k, "dflt")
    \/ \E k \in Keys : delete(k)
    \/ Tick

\* the remember runs
NextRemember ==
    \/ \E k \in Keys, c \in RememberCalls : remember(k, c)
    \/ \E k \in Keys, c \in RememberCalls : set(k, c)
    \/ \E k \in Keys : delete(k)
    \/ Tick

Spec == Init /\ [][Next]_vars

SpecRemember == Init /\ [][NextRemember]_vars

SpecTags == Init /\ [][NextTags]_vars

SpecEvict == Init /\ [][NextEvict]_vars

SpecDisk == InitDisk /\ [][Next]_vars

SpecTTL == Init /\ [][NextTTL]_vars

SpecTTLDisk == InitDisk /\ [][NextTTL]_vars

----------------------------------------------------------------------------
(* Properties *)

\* k has an entry in the map or a file on disk
Cached(cd, dk, dir, k) == InMap(cd, k) \/ hasDiskCache(dk, dir, k)

\* C1: a set of a non-null value with ttl >= 0 returns the value, and a get
\* of the same key at the same clock time returns it too
C1_SetThenGet ==
    (ret.op = "set" /\ ret.arg # None /\ BindTTL(ret.ttl) >= 0) =>
        /\ ret.exc = ""
        /\ ret.val = ret.arg
        /\ \A d \in Defaults :
              LET g == GetOp(cache_data, disk, cache_dir, ret.key, d, now) IN
              g.exc = "" /\ g.val = ret.arg

C1_Witness ==
    /\ ret.op = "set" /\ ret.ttl > 0 /\ ret.val = "i1"
    /\ max_size = 0 /\ ret.evicted # <<>>
    /\ default_ttl # NoneInt /\ now > 1

\* C2: get(k, d) of a key that is neither in the map nor on disk returns d
\* and does not raise
C2_GetAbsentReturnsDefault ==
    [][(ret'.op = "get" /\ ~Cached(cache_data, disk, cache_dir, ret'.key)) =>
          (ret'.exc = "" /\ ret'.val = ret'.arg)]_vars

\* C3: once the clock has reached the expiry time t0 + T of an entry
\* (now - t0 >= T), get(k, d) returns d and has(k) is false
C3_ExpiredFromTTL ==
    [][(/\ ret'.op = "get"
        /\ InMap(cache_data, ret'.key)
        /\ Lookup(cache_data, ret'.key) # NoneObj
        /\ Lookup(cache_data, ret'.key).ttl # NoneInt
        /\ now >= Lookup(cache_data, ret'.key).ttl) =>
          (/\ ret'.exc = ""
           /\ ret'.val = ret'.arg
           /\ GetOp(cache_data', disk', cache_dir', ret'.key, None, now').exc = ""
           /\ ~HasResult(GetOp(cache_data', disk', cache_dir', ret'.key, None, now').val))]_vars

\* C4: the keys a set call removes from the map are a prefix of the map's
\* order: the map after the call is a suffix of the map before it, with
\* the key that was set put into it (no call that raises puts a key)
C4_EvictsOldestFirst ==
    [][ret'.op = "set" =>
          \E n \in 0..Len(cache_data) :
              LET rest == SubSeq(cache_data, n + 1, Len(cache_data)) IN
              /\ KeysOf(cache_data') \in {KeysOf(rest), KeysOf(Put(rest, ret'.key, NoneObj))}
              /\ \A i \in 1..Len(rest) :
                    rest[i].key # ret'.key => rest[i] \in {cache_data'[j] : j \in 1..Len(cache_data')}]_vars

C4_Witness ==
    /\ ret.op = "set" /\ ret.key = "k3" /\ ret.exc = ""
    /\ ret.evicted = <<"k1">>
    /\ KeysOf(cache_data) = <<"k2", "k3">>

\* C5: with a default TTL D > 0 configured, a set that passes no ttl stores
\* expiresAt = now + D
C5_DefaultTTLApplied ==
    (/\ ret.op = "set" /\ ret.ttl = Omitted /\ ret.arg # None /\ ret.exc = ""
     /\ default_ttl # NoneInt /\ default_ttl > 0) =>
        Lookup(cache_data, ret.key).ttl = now + default_ttl

C9_SetNoneThenHasFalse ==
    [][(ret'.op = "set" /\ ret'.arg = None
          /\ ~Cached(cache_data, disk, cache_dir, ret'.key)) =>
          (/\ ret'.val = None /\ ret'.exc = "" /\ ret'.evicted = <<>>
           /\ cache_data' = cache_data /\ disk' = disk
           /\ GetOp(cache_data', disk', cache_dir', ret'.key, None, now').exc = ""
           /\ ~HasResult(GetOp(cache_data', disk', cache_dir', ret'.key, None, now').val))]_vars

\* what the claim C10 expects of has for a stored value: true for the
\* number zero and for truthy values, false for '', [] and False
ClaimedHas(v) == v \in {"i0", "i1"}

\* what holds: False compares equal to 0, so it is reported present too
AmendedHas(v) == v \in {"i0", "i1", "bFalse"}

\* C10 as claimed: has(k) of a present, unexpired key is true for a stored
\* numeric zero and otherwise the truthiness of the stored value, so false
\* for a stored '', [] and False
C10_HasAsClaimed ==
    (ret.op = "has" /\ ret.exc = "" /\ InMap(cache_data, ret.key)) =>
        ret.val = BoolStr(ClaimedHas(Lookup(cache_data, ret.key).data))

\* C10 as amended: has(k) of a present, unexpired key is true for a stored
\* value that compares equal to zero (the number zero and the boolean
\* False) and otherwise the truthiness of the stored value, so false for a
\* stored '' and []
C10_HasZeroOrTruthy ==
    (ret.op = "has" /\ ret.exc = "" /\ InMap(cache_data, ret.key)) =>
        ret.val = BoolStr(AmendedHas(Lookup(cache_data, ret.key).data))

C10_Witness ==
    /\ ret.op = "has" /\ ret.exc = "" /\ ret.val = "True"
    /\ InMap(cache_data, ret.key)
    /\ Lookup(cache_data, ret.key).data = "bFalse"

\* the data, in map order, of the entries of cd that satisfy Keep
DataWhere(cd, Keep(_)) ==
    LET hit == SelectSeq(cd, LAMBDA p : Keep(p.val)) IN
    [i \in 1..Len(hit) |-> hit[i].val.data]

\* C11: get_tags([x]) returns, once each and in map order, the data of
\* exactly the entries in the map whose tags contain x
C11_TagQueryExact ==
    (ret.op = "get_tags" /\ ret.tags.kind = "list" /\ Len(ret.tags.v) = 1) =>
        /\ ret.exc = ""
        /\ ret.list = DataWhere(cache_data, LAMBDA e : ret.tags.v[1] \in Range(e.tags))

\* C18: get_tags(x) with the string x returns what get_tags([x]) returns,
\* and get_tags(None) returns the empty list
C18_QueryNormalized ==
    /\ (ret.op = "get_tags" /\ ret.tags.kind = "str") =>
          LET r == TagsLoop(cache_data, [kind |-> "list", v |-> ret.tags.v], <<>>) IN
          ret.exc = r.exc /\ ret.list = r.list
    /\ (ret.op = "get_tags" /\ ret.tags.kind = "none") =>
          (ret.exc = "" /\ ret.list = <<>>)

\* C20: a tag query that returns, returns only data that get would return
\* at the same clock time: the data of the matching entries whose expiry
\* has not passed
C20_NoExpiredInTagQuery ==
    (ret.op = "get_tags" /\ ret.tags.kind = "list" /\ ret.exc = "") =>
        ret.list = DataWhere(cache_data,
                       LAMBDA e : Range(ret.tags.v) \cap Range(e.tags) # {} /\ ~Expired(e, now))

\* the entry a read of k works on: the one in the map, else the one on disk
\* (NoneObj when there is neither)
EntryOf(cd, dk, dir, k) == IF InMap(cd, k) THEN Lookup(cd, k) ELSE getDiskCache(dk, dir, k)

\* the keys of the map whose entry has expired at time t
ExpiredKeys(cd, t) == {cd[i].key : i \in {j \in 1..Len(cd) : Expired(cd[j].val, t)}}

\* C12: delete_expired() completes, removes from the map and from disk
\* exactly the entries of the map whose expiry has passed and leaves every
\* other entry as it was, in its place
C12_SweepExact ==
    [][ret'.op = "delete_expired" =>
          /\ ret'.exc = ""
          /\ cache_data' = SelectSeq(cache_data, LAMBDA p : ~Expired(p.val, now))
          /\ \A i \in 1..Len(cache_data') : ~Expired(cache_data'[i].val, now)
          /\ DOMAIN disk' = IF cache_dir = NoDir THEN DOMAIN disk
                            ELSE (DOMAIN disk) \ ExpiredKeys(cache_data, now)]_vars

\* C13: get_ttl(k) returns expiresAt - now for an entry with an expiry that
\* has not passed, -1 for an entry without expiry, and None, without
\* raising, when there is no entry for k or it has expired
C13_GetTTLResult ==
    [][ret'.op = "get_ttl" =>
          LET e == EntryOf(cache_data, disk, cache_dir, ret'.key) IN
          /\ ret'.exc = ""
          /\ IF e = NoneObj \/ Expired(e, now) THEN ret'.val = None
             ELSE /\ ret'.val = "int"
                  /\ ret'.num = IF e.ttl = NoneInt THEN -1 ELSE e.ttl - now]_vars

\* C17: set_ttl(k, t) returns the engine; for an entry that has not expired
\* it changes the expiry alone (now + t for t > 0, none for t <= 0), keeps
\* the place of k and every other entry and writes the entry through; when
\* there is no entry for k or it has expired it completes and leaves no
\* entry for k in the map or on disk
C17_SetTTLOnlyExpiry ==
    [][ret'.op = "set_ttl" =>
          LET k == ret'.key
              e == EntryOf(cache_data, disk, cache_dir, k)
          IN
          /\ ret'.exc = "" /\ ret'.val = "self"
          /\ \A i \in 1..Len(cache_data) :
                cache_data[i].key # k =>
                    cache_data[i] \in {cache_data'[j] : j \in 1..Len(cache_data')}
          /\ IF e = NoneObj \/ Expired(e, now)
             THEN ~InMap(cache_data', k) /\ k \notin DOMAIN disk'
             ELSE /\ KeysOf(cache_data') = KeysOf(Put(cache_data, k, e))
                  /\ Lookup(cache_data', k) =
                        [e EXCEPT !.ttl = IF ret'.ttl > 0 THEN now + ret'.ttl ELSE NoneInt]
                  /\ (cache_dir # NoDir =>
                        (k \in DOMAIN disk' /\ Loads(disk'[k]) = Lookup(cache_data', k)))]_vars

\* C19: every key of the map maps to an entry with data that is not None
C19_WellFormedEntries ==
    \A i \in 1..Len(cache_data) :
        cache_data[i].val # NoneObj /\ cache_data[i].val.data # None

\* C14: remember(k, v) of a key without an entry stores v and returns it;
\* remember of a key that has an unexpired entry returns the stored value
\* and leaves the entry as it was
C14_RememberTwice ==
    [][(ret'.op = "remember" /\ ret'.arg # None) =>
          LET k == ret'.key
              e == EntryOf(cache_data, disk, cache_dir, k)
          IN
          /\ ret'.exc = ""
          /\ IF e = NoneObj \/ Expired(e, now)
             THEN /\ ret'.val = ret'.arg
                  /\ InMap(cache_data', k) /\ Lookup(cache_data', k).data = ret'.arg
             ELSE /\ ret'.val = e.data
                  /\ InMap(cache_data', k) /\ Lookup(cache_data', k) = e]_vars

RECURSIVE SumSizes(_)
\* the sizes of the data held by the map
SumSizes(cd) ==
    IF cd = <<>> THEN 0 ELSE SizeOfValue(Head(cd).val.data) + SumSizes(Tail(cd))

\* C15: with a cap configured, a set of a non-null value evicts if and only
\* if the size of the cached data plus the new value reaches the cap (and
\* the map has an entry to evict)
C15_EvictsIffOverCap ==
    [][(ret'.op = "set" /\ ret'.arg # None /\ max_size # NoneInt) =>
          ((ret'.evicted # <<>>) <=>
              (cache_data # <<>> /\ SumSizes(cache_data) + SizeOfValue(ret'.arg) >= max_size))]_vars

\* the keys of s that are still keys of the map cd
Remaining(s, cd) == SelectSeq(s, LAMBDA k : InMap(cd, k))

\* C16 as claimed: a set on a key that is in the map replaces its entry by
\* the one the call describes and leaves the keys that remain in the map,
\* the key set among them, in the order they had
C16_ReplaceKeepsOrder ==
    [][(ret'.op = "set" /\ ret'.arg # None /\ InMap(cache_data, ret'.key)) =>
          /\ ret'.exc = ""
          /\ InMap(cache_data', ret'.key)
          /\ Lookup(cache_data', ret'.key) =
                NewEntry(ret'.arg, BindTTL(ret'.ttl), ret'.tags, default_ttl, now)
          /\ KeysOf(cache_data') = Remaining(KeysOf(cache_data), cache_data')]_vars

\* C16 as amended: a set that returns, on a key that is in the map,
\* replaces its entry by the one the call describes and leaves the other
\* keys that remain in the map in the order they had; the key set keeps
\* its position unless the eviction of this call removed it, and then it
\* is the last key of the map
C16_ReplaceKeepsOrderUnlessEvicted ==
    [][(ret'.op = "set" /\ ret'.arg # None /\ ret'.exc = "" /\ InMap(cache_data, ret'.key)) =>
          LET k == ret'.key
              Others(s) == SelectSeq(s, LAMBDA x : x # k)
          IN
          /\ InMap(cache_data', k)
          /\ Lookup(cache_data', k).data = ret'.arg
          /\ Lookup(cache_data', k).tags = NormTags(ret'.tags)
          /\ Lookup(cache_data', k).ttl = ExpiresAt(BindTTL(ret'.ttl), default_ttl, now)
          /\ Others(KeysOf(cache_data')) = Remaining(Others(KeysOf(cache_data)), cache_data')
          /\ IF k \in Range(ret'.evicted)
             THEN cache_data'[Len(cache_data')].key = k
             ELSE KeysOf(cache_data') = Remaining(KeysOf(cache_data), cache_data')]_vars

\* a set on the oldest key under a cap: the key was evicted and put back
\* last, behind the key that stayed
C16_Witness ==
    /\ ret.op = "set" /\ ret.exc = "" /\ ret.evicted = <<ret.key>>
    /\ Len(cache_data) = 2 /\ cache_data[2].key = ret.key
    /\ cache_data[1].val # NoneObj
    /\ cache_data[2].val.tags = <<"x">>

====
